---- MODULE Spec2Model ----
(***************************************************************************)
(* Model of app.py: the price-quotation webhook.  The catalog global       *)
(* products_df, load_products, search_products and the three Flask         *)
(* handlers (health_check, get_segmentos, cotizar).                        *)
(*                                                                         *)
(* Text is a sequence of one-character strings.  A similarity score is a   *)
(* rational in 0..100 (rapidfuzz returns a float); it is held exactly as   *)
(* an integer number of 1/Scale units, so 90 is 90 * Scale.                *)
(***************************************************************************)
EXTENDS Integers, Sequences, FiniteSets, TLC

VARIABLES pc, products_df, load_ok, op, args, data, ret, response, scored, searches

vars == <<pc, products_df, load_ok, op, args, data, ret, response, scored, searches>>

----------------------------------------------------------------------------
(* Bounds *)

MaxRows == 3

MaxConsultas == 2

----------------------------------------------------------------------------
(* Text *)

Lower(c) ==
    CASE c = "A" -> "a"
      [] c = "B" -> "b"
      [] c = "C" -> "c"
      [] c = "D" -> "d"
      [] c = "E" -> "e"
      [] OTHER -> c

IsSpace(c) == c = " "

\* str.lower()
lower(s) == [i \in 1..Len(s) |-> Lower(s[i])]

RECURSIVE lstrip(_)
lstrip(s) == IF s # <<>> /\ IsSpace(Head(s)) THEN lstrip(Tail(s)) ELSE s

RECURSIVE rstrip(_)
rstrip(s) ==
    IF s # <<>> /\ IsSpace(s[Len(s)]) THEN rstrip(SubSeq(s, 1, Len(s) - 1)) ELSE s

\* str.strip()
strip(s) == rstrip(lstrip(s))

\* Unicode code point order of the characters in use
Ord(c) ==
    CASE c = " " -> 32
      [] c = "A" -> 65
      [] c = "B" -> 66
      [] c = "C" -> 67
      [] c = "D" -> 68
      [] c = "E" -> 69
      [] c = "a" -> 97
      [] c = "b" -> 98
      [] c = "c" -> 99
      [] c = "d" -> 100
      [] c = "e" -> 101
      [] c = "z" -> 122
      [] OTHER -> 0

\* s < t for Python str
RECURSIVE StrLess(_, _)
StrLess(s, t) ==
    IF t = <<>> THEN FALSE
    ELSE IF s = <<>> THEN TRUE
    ELSE IF Ord(Head(s)) # Ord(Head(t)) THEN Ord(Head(s)) < Ord(Head(t))
    ELSE StrLess(Tail(s), Tail(t))

Max2(a, b) == IF a >= b THEN a ELSE b

Min2(a, b) == IF a <= b THEN a ELSE b

SetMax(S) == IF S = {} THEN 0 ELSE CHOOSE x \in S : \A y \in S : y <= x

----------------------------------------------------------------------------
(* JSON scalars and Python values: t is the type, s the text of a string *)

Val(t, s) == [t |-> t, s |-> s]

Str(s) == Val("str", s)

None == Val("null", <<>>)

Absent == Val("absent", <<>>)

Num5 == Val("num", <<"5">>)

\* Python truthiness: bool(v)
Truthy(v) ==
    CASE v.t = "str" -> v.s # <<>>
      [] v.t = "num" -> v.s # <<"0">>
      [] OTHER -> FALSE

IsStr(v) == v.t = "str"

----------------------------------------------------------------------------
(* The catalog: rows a CSV file may hold *)

Row(d, pc_, pt, s) ==
    [Descripcion |-> d, PrecioContado |-> pc_, PrecioTarjeta |-> pt, SEGMENTO |-> s]

RowPool ==
    { Row(<<"A","b","d">>, "1.000,00", "1.100,00", <<"A","b","c">>),
      Row(<<"c","d">>,     "250,50",   "300,00",   <<"d","e">>),
      Row(<<"A","b","d">>, "250,50",   "300,00",   <<"A","B","C">>),
      Row(<<"c","e">>,     "1.000,00", "1.100,00", <<"d","e">>) }

required_columns == {"Descripcion", "Precio Contado", "Precio Tarjeta", "SEGMENTO"}

RECURSIVE SeqsUpTo(_, _)
SeqsUpTo(S, n) ==
    IF n = 0 THEN {<<>>}
    ELSE LET prev == SeqsUpTo(S, n - 1)
         IN  prev \cup {Append(q, x) : q \in {p \in prev : Len(p) = n - 1}, x \in S}

\* The frames pd.read_csv can produce: every required column, or one missing
Frames ==
    {[columns |-> cols, rows |-> rows] :
        cols \in {required_columns} \cup {required_columns \ {c} : c \in required_columns},
        rows \in SeqsUpTo(RowPool, MaxRows)}

\* products_df = None (line 15), and a frame held by the global
NoneDF == [isNone |-> TRUE, columns |-> {}, rows |-> <<>>]

DF(f) == [isNone |-> FALSE, columns |-> f.columns, rows |-> f.rows]

----------------------------------------------------------------------------
(* Inputs *)

\* query texts and segment filters handed to search_products
QueryPool == { <<"b","c","d">>, <<"d">>, <<"A","B","C">>, <<"z","z">> }

SegmentoPool == { None, Str(<<>>), Str(<<"a","b","c">>), Str(<<"D","E">>), Str(<<"z","z">>) }

\* one element of a 'consultas' list: a JSON object with optional keys, or not
Item(t, consulta, segmento) == [t |-> t, consulta |-> consulta, segmento |-> segmento]

ItemPool ==
    { Item("obj", Str(<<"b","c","d">>), Absent),
      Item("obj", Str(<<" ","d"," ">>), Absent),
      Item("obj", Str(<<"b","c","d">>), Str(<<"a","b","c">>)),
      Item("obj", Absent, Absent),
      Item("obj", Str(<<" ">>), Absent),
      Item("obj", Str(<<"d">>), Str(<<" ">>)),
      Item("num", Absent, Absent),
      Item("obj", Str(<<"d">>), Str(<<"z","z">>)) }

\* the 'consultas' value: its JSON type and, for a list, its elements
Lista(t, items) == [t |-> t, items |-> items]

NoLista == Lista("absent", <<>>)

\* a request body: whether it is JSON, the type of the parsed value, what
\* "key in data" answers for a non-object, and the fields of an object
Body(is_json, t, keys, consulta, segmento, consultas) ==
    [is_json |-> is_json, t |-> t, keys |-> keys,
     consulta |-> consulta, segmento |-> segmento, consultas |-> consultas]

Obj(consulta, segmento, consultas) ==
    Body(TRUE, "obj",
         (IF consulta.t # "absent" THEN {"consulta"} ELSE {})
           \cup (IF segmento.t # "absent" THEN {"segmento"} ELSE {})
           \cup (IF consultas.t # "absent" THEN {"consultas"} ELSE {}),
         consulta, segmento, consultas)

NonObj(is_json, t, keys) == Body(is_json, t, keys, Absent, Absent, NoLista)

NoData == NonObj(FALSE, "absent", {})

SinglePool ==
    {Obj(it.consulta, it.segmento, NoLista) : it \in {i \in ItemPool : i.t = "obj"}}
      \cup { Obj(Num5, Absent, NoLista),
             Obj(Str(<<>>), Absent, NoLista),
             Obj(Str(<<"d">>), Num5, NoLista),
             Obj(Str(<<"d">>), None, NoLista),
             Obj(Str(<<"d">>), Str(<<>>), NoLista),
             Obj(Str(<<"A","B","C">>), Str(<<" ","D","E">>), NoLista),
             Obj(Str(<<"d">>), Absent, Lista("list", <<Item("obj", Str(<<"b","c","d">>), Absent)>>)) }

MultiPool ==
    {Obj(Absent, Absent, Lista("list", items)) : items \in SeqsUpTo(ItemPool, MaxConsultas)}
      \cup { Obj(Absent, Absent, Lista("str", <<>>)),
             Obj(Absent, Absent, Lista("null", <<>>)),
             Obj(Absent, Str(<<"a","b","c">>), Lista("list", <<Item("obj", Str(<<"d">>), Absent)>>)) }

OtherPool ==
    { NonObj(FALSE, "absent", {}),
      NonObj(TRUE, "unparseable", {}),
      NonObj(TRUE, "null", {}),
      NonObj(TRUE, "num", {}),
      NonObj(TRUE, "str", {}),
      NonObj(TRUE, "str", {"consulta"}),
      NonObj(TRUE, "str", {"consulta", "consultas"}),
      NonObj(TRUE, "list", {}),
      NonObj(TRUE, "list", {"consulta"}),
      NonObj(TRUE, "list", {"consultas"}),
      Obj(Absent, Absent, NoLista),
      Obj(Absent, Str(<<"a","b","c">>), NoLista) }

BodyPool == SinglePool \cup MultiPool \cup OtherPool

AllTexts ==
    QueryPool \cup {strip(b.consulta.s) : b \in SinglePool}
      \cup {strip(it.consulta.s) : it \in ItemPool}
      \cup {r.Descripcion : r \in RowPool} \cup {r.SEGMENTO : r \in RowPool} \cup {r.Descripcion : r \in RowPool} \cup {r.SEGMENTO : r \in RowPool}

MaxTextLen == SetMax({Len(s) : s \in AllTexts})

RECURSIVE Gcd(_, _)
Gcd(a, b) == IF b = 0 THEN a ELSE Gcd(b, a % b)

RECURSIVE LcmUpTo(_)
LcmUpTo(n) == IF n <= 1 THEN 1 ELSE LET l == LcmUpTo(n - 1) IN (l * n) \div Gcd(l, n)

\* every ratio of texts this short is a whole number of 1/Scale units
Scale == LcmUpTo(2 * MaxTextLen)

Pts(n) == n * Scale

\* min_score: the default of line 32 and two other thresholds
MinScorePool == {Pts(50), Pts(90), Pts(100)}

DefaultMinScore == Pts(90)

----------------------------------------------------------------------------
(* rapidfuzz.fuzz.partial_ratio *)

\* length of the longest common subsequence
RECURSIVE LCS(_, _)
LCS(a, b) ==
    IF a = <<>> \/ b = <<>> THEN 0
    ELSE IF Head(a) = Head(b) THEN 1 + LCS(Tail(a), Tail(b))
    ELSE Max2(LCS(Tail(a), b), LCS(a, Tail(b)))

\* fuzz.ratio: normalized Indel similarity, 100 * 2*LCS / (len a + len b)
Ratio(a, b) ==
    IF Len(a) + Len(b) = 0 THEN Pts(100)
    ELSE (Pts(100) * 2 * LCS(a, b)) \div (Len(a) + Len(b))

\* the alignments of the shorter text against the longer one: the proper
\* prefixes shorter than it, every window of its length, the shorter suffixes
Windows(n, long) ==
    {SubSeq(long, 1, i) : i \in 1..(n - 1)}
      \cup {SubSeq(long, i + 1, i + n) : i \in 0..(Len(long) - n)}
      \cup {SubSeq(long, i + 1, Len(long)) : i \in (Len(long) - n + 1)..(Len(long) - 1)}

PartialImpl(short, long) == SetMax({Ratio(short, w) : w \in Windows(Len(short), long)})

partial_ratio(s1, s2) ==
    IF s1 = <<>> /\ s2 = <<>> THEN Pts(100)
    ELSE IF Len(s1) < Len(s2) THEN PartialImpl(s1, s2)
    ELSE IF Len(s2) < Len(s1) THEN PartialImpl(s2, s1)
    ELSE Max2(PartialImpl(s1, s2), PartialImpl(s2, s1))

----------------------------------------------------------------------------
(* search_products *)

Return(results, n) == [kind |-> "return", msg |-> "", results |-> results, scored |-> n]

Raise(kind, msg, n) == [kind |-> kind, msg |-> msg, results |-> <<>>, scored |-> n]

\* the boost without the cap at 100
FinalScoreUncapped(desc_score, segment_score) ==
    LET final_score == Max2(desc_score, segment_score)
    IN  IF segment_score >= Pts(80) THEN final_score + Pts(10) ELSE final_score

\* lines 54-56
FinalScore(desc_score, segment_score) ==
    LET final_score == Max2(desc_score, segment_score)
    IN  IF segment_score >= Pts(80) THEN Min2(Pts(100), final_score + Pts(10))
        ELSE final_score

Result(row, final_score) ==
    [descripcion |-> row.Descripcion,
     precio_contado |-> row.PrecioContado,
     precio_tarjeta |-> row.PrecioTarjeta,
     segmento |-> row.SEGMENTO,
     score |-> final_score]

\* the sort without reverse=True
RECURSIVE SortAscending(_)
SortAscending(rs) ==
    IF rs = <<>> THEN <<>>
    ELSE LET sorted == SortAscending(SubSeq(rs, 1, Len(rs) - 1))
             x == rs[Len(rs)]
             k == Cardinality({i \in 1..Len(sorted) : sorted[i].score <= x.score})
         IN  SubSeq(sorted, 1, k) \o <<x>> \o SubSeq(sorted, k + 1, Len(sorted))

\* list.sort(key=score, reverse=True): stable, equal scores keep their order
RECURSIVE SortByScore(_)
SortByScore(rs) ==
    IF rs = <<>> THEN <<>>
    ELSE LET sorted == SortByScore(SubSeq(rs, 1, Len(rs) - 1))
             x == rs[Len(rs)]
             k == Cardinality({i \in 1..Len(sorted) : sorted[i].score >= x.score})
         IN  SubSeq(sorted, 1, k) \o <<x>> \o SubSeq(sorted, k + 1, Len(sorted))

\* the loop of lines 47-66 from row i on; a missing column raises KeyError
RECURSIVE ScanRows(_, _, _, _, _, _)
ScanRows(cols, rows, i, query, min_score, results) ==
    IF i > Len(rows) THEN Return(SortByScore(results), Len(rows))
    ELSE IF "Descripcion" \notin cols THEN Raise("KeyError", "Descripcion", i - 1)
    ELSE IF "SEGMENTO" \notin cols THEN Raise("KeyError", "SEGMENTO", i)
    ELSE LET row == rows[i]
             desc_score == partial_ratio(lower(query), lower(row.Descripcion))
             segment_score == partial_ratio(lower(query), lower(row.SEGMENTO))
             final_score == FinalScore(desc_score, segment_score)
         IN  IF final_score >= min_score
             THEN IF "Precio Contado" \notin cols THEN Raise("KeyError", "Precio Contado", i)
                  ELSE IF "Precio Tarjeta" \notin cols
                       THEN Raise("KeyError", "Precio Tarjeta", i)
                  ELSE ScanRows(cols, rows, i + 1, query, min_score,
                                Append(results, Result(row, final_score)))
             ELSE ScanRows(cols, rows, i + 1, query, min_score, results)

\* lines 40-45: the rows left by the segment filter
FilterSegment(rows, segmento) ==
    SelectSeq(rows, LAMBDA r : lower(r.SEGMENTO) = lower(segmento.s))

\* the loop run over products_df instead of df_filtered
search_products_unfiltered(df, query, segmento, min_score) ==
    IF df.isNone THEN Raise("ValueError", "Products not loaded", 0)
    ELSE IF Truthy(segmento)
    THEN IF "SEGMENTO" \notin df.columns THEN Raise("KeyError", "SEGMENTO", 0)
         ELSE LET df_filtered == FilterSegment(df.rows, segmento)
              IN  IF df_filtered = <<>> THEN Return(<<>>, 0)
                  ELSE ScanRows(df.columns, df.rows, 1, query, min_score, <<>>)
    ELSE ScanRows(df.columns, df.rows, 1, query, min_score, <<>>)

\* no check of the global: an unset catalog is searched as an empty one
search_products_unchecked(df, query, segmento, min_score) ==
    IF df.isNone THEN Return(<<>>, 0)
    ELSE IF Truthy(segmento)
    THEN IF "SEGMENTO" \notin df.columns THEN Raise("KeyError", "SEGMENTO", 0)
         ELSE LET df_filtered == FilterSegment(df.rows, segmento)
              IN  IF df_filtered = <<>> THEN Return(<<>>, 0)
                  ELSE ScanRows(df.columns, df_filtered, 1, query, min_score, <<>>)
    ELSE ScanRows(df.columns, df.rows, 1, query, min_score, <<>>)

search_products(df, query, segmento, min_score) ==
    IF df.isNone THEN Raise("ValueError", "Products not loaded", 0)
    ELSE IF Truthy(segmento)
    THEN IF "SEGMENTO" \notin df.columns THEN Raise("KeyError", "SEGMENTO", 0)
         ELSE LET df_filtered == FilterSegment(df.rows, segmento)
              IN  IF df_filtered = <<>> THEN Return(<<>>, 0)
                  ELSE ScanRows(df.columns, df_filtered, 1, query, min_score, <<>>)
    ELSE ScanRows(df.columns, df.rows, 1, query, min_score, <<>>)

----------------------------------------------------------------------------
(* The handlers *)

\* an "error" body: the fixed text, the item position an f-string puts in it
\* (0 when none) and the text of the exception it embeds ("" when none)
Error(text, item, detail) ==
    [error |-> [text |-> text, item |-> item, detail |-> detail]]

\* what a handler did: the HTTP response, plus how many times it called
\* search_products and how many rows those calls scored
Outcome(status, body, nsearch, nscored) ==
    [status |-> status, body |-> body, searches |-> nsearch, scored |-> nscored]

GenericError == "Internal server error occurred while processing request"

\* the except clauses of lines 235-245
Caught(exc, nsearch, nscored) ==
    IF exc.kind = "ValueError"
    THEN Outcome(500, Error("Data error: ", 0, exc.msg), nsearch, nscored)
    ELSE Outcome(500, Error(GenericError, 0, ""), nsearch, nscored)

\* lines 126 and 177
BadConsulta(consulta) == ~Truthy(consulta) \/ ~IsStr(consulta) \/ strip(consulta.s) = <<>>

\* lines 132 and 182, segmento being item.get('segmento', None)
BadSegmento(segmento) ==
    segmento.t \notin {"absent", "null"} /\ (~IsStr(segmento) \/ strip(segmento.s) = <<>>)

\* segmento.strip() if segmento else None
SegmentoArg(segmento) == IF Truthy(segmento) THEN Str(strip(segmento.s)) ELSE None

\* lines 142-149 and 192-199
ConsultaInfo(consulta, segmento, results) ==
    LET info == [consulta |-> consulta.s,
                 resultados |-> results,
                 total_encontrados |-> Len(results)]
    IN  IF Truthy(segmento) THEN info @@ ("segmento_filtrado" :> segmento.s) ELSE info

\* deduplication that keeps the last result of every descripcion
RECURSIVE UniqueLast(_, _)
UniqueLast(all_results, seen_descriptions) ==
    IF all_results = <<>> THEN <<>>
    ELSE LET result == Head(all_results)
             rest == Tail(all_results)
         IN  IF \E n \in 1..Len(rest) : rest[n].descripcion = result.descripcion
             THEN UniqueLast(rest, seen_descriptions)
             ELSE <<result>> \o UniqueLast(rest, seen_descriptions)

\* lines 205-210: keep the first result of every descripcion
RECURSIVE Unique(_, _)
Unique(all_results, seen_descriptions) ==
    IF all_results = <<>> THEN <<>>
    ELSE LET result == Head(all_results)
         IN  IF result.descripcion \notin seen_descriptions
             THEN <<result>> \o Unique(Tail(all_results),
                                       seen_descriptions \cup {result.descripcion})
             ELSE Unique(Tail(all_results), seen_descriptions)

\* lines 204-220
Combined(consultas, consultas_procesadas, all_results) ==
    LET unique_results == SortByScore(Unique(all_results, {}))
    IN  [consultas_procesadas |-> consultas_procesadas,
         resultados_combinados |-> unique_results,
         total_consultas |-> Len(consultas),
         total_encontrados_combinados |-> Len(unique_results)]

\* the loop of lines 163-202 from item i on
RECURSIVE ProcessItems(_, _, _, _, _, _, _)
ProcessItems(df, consultas, i, all_results, consultas_procesadas, nsearch, nscored) ==
    IF i > Len(consultas)
    THEN Outcome(200, Combined(consultas, consultas_procesadas, all_results),
                 nsearch, nscored)
    ELSE LET item == consultas[i] IN
         IF item.t # "obj"
         THEN Outcome(400, Error("Item in 'consultas' must be an object with 'consulta' field",
                                 i, ""), nsearch, nscored)
         ELSE IF item.consulta.t = "absent"
         THEN Outcome(400, Error("Item in 'consultas' is missing required field 'consulta'",
                                 i, ""), nsearch, nscored)
         ELSE IF BadConsulta(item.consulta)
         THEN Outcome(400, Error("Field 'consulta' in item must be a non-empty string",
                                 i, ""), nsearch, nscored)
         ELSE IF BadSegmento(item.segmento)
         THEN Outcome(400, Error("Field 'segmento' in item must be a non-empty string when provided",
                                 i, ""), nsearch, nscored)
         ELSE LET r == search_products(df, strip(item.consulta.s),
                                       SegmentoArg(item.segmento), DefaultMinScore)
              IN  IF r.kind # "return" THEN Caught(r, nsearch + 1, nscored + r.scored)
                  ELSE ProcessItems(df, consultas, i + 1,
                                    all_results \o r.results,
                                    Append(consultas_procesadas,
                                           ConsultaInfo(item.consulta, item.segmento, r.results)),
                                    nsearch + 1, nscored + r.scored)

\* lines 120-149: the single query format
SingleQuery(df, d) ==
    IF d.t # "obj" THEN Caught(Raise("TypeError", "indices", 0), 0, 0)
    ELSE IF BadConsulta(d.consulta)
    THEN Outcome(400, Error("Field 'consulta' must be a non-empty string", 0, ""), 0, 0)
    ELSE IF BadSegmento(d.segmento)
    THEN Outcome(400, Error("Field 'segmento' must be a non-empty string when provided", 0, ""),
                 0, 0)
    ELSE LET r == search_products(df, strip(d.consulta.s), SegmentoArg(d.segmento),
                                  DefaultMinScore)
         IN  IF r.kind # "return" THEN Caught(r, 1, r.scored)
             ELSE Outcome(200, ConsultaInfo(d.consulta, d.segmento, r.results), 1, r.scored)

\* a list of one query answered as a single query
MultiQueryFlat(df, d) ==
    IF d.t # "obj" THEN Caught(Raise("TypeError", "indices", 0), 0, 0)
    ELSE IF d.consultas.t # "list" \/ d.consultas.items = <<>>
    THEN Outcome(400, Error("Field 'consultas' must be a non-empty array", 0, ""), 0, 0)
    ELSE IF Len(d.consultas.items) = 1 /\ d.consultas.items[1].t = "obj"
            /\ d.consultas.items[1].consulta.t # "absent"
    THEN SingleQuery(df, Obj(d.consultas.items[1].consulta, d.consultas.items[1].segmento,
                             NoLista))
    ELSE ProcessItems(df, d.consultas.items, 1, <<>>, <<>>, 0, 0)

\* lines 151-220: the multiple queries format
MultiQuery(df, d) ==
    IF d.t # "obj" THEN Caught(Raise("TypeError", "indices", 0), 0, 0)
    ELSE IF d.consultas.t # "list" \/ d.consultas.items = <<>>
    THEN Outcome(400, Error("Field 'consultas' must be a non-empty array", 0, ""), 0, 0)
    ELSE ProcessItems(df, d.consultas.items, 1, <<>>, <<>>, 0, 0)

\* POST /cotizar, lines 107-245
cotizar(df, d) ==
    IF ~d.is_json
    THEN Outcome(400, Error("Content-Type must be application/json", 0, ""), 0, 0)
    ELSE IF d.t = "unparseable" THEN Caught(Raise("BadRequest", "400 Bad Request", 0), 0, 0)
    ELSE IF d.t \in {"null", "num"} THEN Caught(Raise("TypeError", "not iterable", 0), 0, 0)
    ELSE IF "consulta" \in d.keys THEN SingleQuery(df, d)
    ELSE IF "consultas" \in d.keys THEN MultiQuery(df, d)
    ELSE Outcome(400, Error("Missing required field. Use 'consulta' for single search or 'consultas' for multiple searches",
                            0, ""), 0, 0)

\* sorted(list of str)
RECURSIVE SortedTexts(_)
SortedTexts(S) ==
    IF S = {} THEN <<>>
    ELSE LET m == CHOOSE x \in S : \A y \in S : ~StrLess(y, x)
         IN  <<m>> \o SortedTexts(S \ {m})

\* GET /segmentos, lines 78-104
get_segmentos(df) ==
    IF df.isNone THEN Outcome(500, Error("Products not loaded", 0, ""), 0, 0)
    ELSE IF "SEGMENTO" \notin df.columns
    THEN Outcome(500, Error("Internal server error", 0, ""), 0, 0)
    ELSE LET segmentos == SortedTexts({df.rows[i].SEGMENTO : i \in 1..Len(df.rows)})
             count(seg) == Cardinality({i \in 1..Len(df.rows) : df.rows[i].SEGMENTO = seg})
         IN  Outcome(200,
                     [segmentos |-> [k \in 1..Len(segmentos) |->
                                        [segmento |-> segmentos[k],
                                         cantidad_productos |-> count(segmentos[k])]],
                      total_segmentos |-> Len(segmentos)],
                     0, 0)

\* GET /, lines 73-75
health_check == Outcome(200, [message |-> "Webhook activo"], 0, 0)

----------------------------------------------------------------------------
(* The state machine *)

NoArgs == [query |-> <<>>, segmento |-> None, min_score |-> 0]

NoRet == [kind |-> "none", msg |-> "", results |-> <<>>, scored |-> 0]

NoResponse == [status |-> 0, body |-> <<>>]

\* the module is imported: products_df = None, load_products not yet run
Init ==
    /\ pc = "startup"
    /\ products_df = NoneDF
    /\ load_ok = FALSE
    /\ op = "none"
    /\ args = NoArgs
    /\ data = NoData
    /\ ret = NoRet
    /\ response = NoResponse
    /\ scored = 0
    /\ searches = 0

\* load_products, lines 17-30 and 263: pd.read_csv raises and the global
\* stays None
LoadUnreadable ==
    /\ pc = "startup"
    /\ pc' = "serving"
    /\ products_df' = products_df
    /\ load_ok' = FALSE
    /\ UNCHANGED <<op, args, data, ret, response, scored, searches>>

\* load_products: pd.read_csv returns a frame, which is assigned to the
\* global before the columns are looked at
LoadFrame ==
    /\ pc = "startup"
    /\ \E f \in Frames :
          /\ products_df' = DF(f)
          /\ load_ok' = (required_columns \subseteq f.columns)
    /\ pc' = "serving"
    /\ UNCHANGED <<op, args, data, ret, response, scored, searches>>

Handled(name, d, out) ==
    /\ op' = name
    /\ data' = d
    /\ args' = NoArgs
    /\ ret' = NoRet
    /\ response' = [status |-> out.status, body |-> out.body]
    /\ scored' = out.scored
    /\ searches' = out.searches
    /\ pc' = "responded"
    /\ UNCHANGED <<products_df, load_ok>>

\* a direct call of search_products(query, segmento, min_score)
SearchProducts ==
    /\ pc = "serving"
    /\ \E query \in QueryPool, segmento \in SegmentoPool, min_score \in MinScorePool :
          LET r == search_products(products_df, query, segmento, min_score)
          IN  /\ args' = [query |-> query, segmento |-> segmento, min_score |-> min_score]
              /\ ret' = r
              /\ scored' = r.scored
    /\ op' = "search_products"
    /\ data' = NoData
    /\ response' = NoResponse
    /\ searches' = 1
    /\ pc' = "responded"
    /\ UNCHANGED <<products_df, load_ok>>

HealthCheck ==
    /\ pc = "serving"
    /\ Handled("health_check", NoData, health_check)

GetSegmentos ==
    /\ pc = "serving"
    /\ Handled("get_segmentos", NoData, get_segmentos(products_df))

Cotizar ==
    /\ pc = "serving"
    /\ \E d \in BodyPool : Handled("cotizar", d, cotizar(products_df, d))

\* the call is over: its arguments, locals and response are gone and the
\* server waits for the next request; only the globals remain
Teardown ==
    /\ pc = "responded"
    /\ pc' = "serving"
    /\ op' = "none"
    /\ args' = NoArgs
    /\ data' = NoData
    /\ ret' = NoRet
    /\ response' = NoResponse
    /\ scored' = 0
    /\ searches' = 0
    /\ UNCHANGED <<products_df, load_ok>>

Next ==
    \/ LoadUnreadable
    \/ LoadFrame
    \/ SearchProducts
    \/ HealthCheck
    \/ GetSegmentos
    \/ Cotizar
    \/ Teardown

Spec == Init /\ [][Next]_vars

----------------------------------------------------------------------------
(* Vocabulary of the properties, stated without the helpers of the model *)

\* a non-empty text that is not only white space
Texto(v) == v.t = "str" /\ \E i \in 1..Len(v.s) : v.s[i] # " "

SegmentoOk(v) == v.t \in {"absent", "null"} \/ Texto(v)

ItemOk(it) == it.t = "obj" /\ Texto(it.consulta) /\ SegmentoOk(it.segmento)

\* a body of the form {consulta, segmento?}
ValidSingle(d) ==
    /\ d.is_json /\ d.t = "obj"
    /\ "consulta" \in d.keys /\ Texto(d.consulta) /\ SegmentoOk(d.segmento)

\* a body that carries a 'consultas' list and no 'consulta'
ListBody(d) ==
    /\ d.is_json /\ d.t = "obj"
    /\ "consulta" \notin d.keys /\ "consultas" \in d.keys
    /\ d.consultas.t = "list"

\* a body of the form {consultas: [{consulta, segmento?}, ...]}
ValidMulti(d) ==
    /\ ListBody(d) /\ d.consultas.items # <<>>
    /\ \A i \in 1..Len(d.consultas.items) : ItemOk(d.consultas.items[i])

SameSegment(a, b) ==
    /\ Len(a) = Len(b)
    /\ \A i \in 1..Len(a) : Lower(a[i]) = Lower(b[i])

\* the call of search_products that just returned or raised
Searched == pc = "responded" /\ op = "search_products"

Answered(name) == pc = "responded" /\ op = name

\* the catalog rows the segment filter of the call lets through
Surviving ==
    IF args.segmento.t = "str" /\ args.segmento.s # <<>>
    THEN {i \in 1..Len(products_df.rows) :
              SameSegment(products_df.rows[i].SEGMENTO, args.segmento.s)}
    ELSE 1..Len(products_df.rows)

\* the final score the contract gives catalog row i under the query
Expected(i) ==
    LET row == products_df.rows[i]
        descScore == partial_ratio(lower(args.query), lower(row.Descripcion))
        segScore == partial_ratio(lower(args.query), lower(row.SEGMENTO))
        best == IF descScore >= segScore THEN descScore ELSE segScore
    IN  IF segScore < 80 * Scale THEN best
        ELSE IF best + 10 * Scale > 100 * Scale THEN 100 * Scale
        ELSE best + 10 * Scale

SegScore(i) == partial_ratio(lower(args.query), lower(products_df.rows[i].SEGMENTO))

ExpectedResult(i) ==
    [descripcion |-> products_df.rows[i].Descripcion,
     precio_contado |-> products_df.rows[i].PrecioContado,
     precio_tarjeta |-> products_df.rows[i].PrecioTarjeta,
     segmento |-> products_df.rows[i].SEGMENTO,
     score |-> Expected(i)]

Kept == {i \in Surviving : Expected(i) >= args.min_score}

----------------------------------------------------------------------------
(* C1 *)

\* C1: with a non-empty segment filter X, search_products returns only
\* results whose segment equals X ignoring case, and when no catalog row has
\* that segment it returns the empty list without scoring any row.
C1_SegmentFilter ==
    (Searched /\ ~products_df.isNone /\ "SEGMENTO" \in products_df.columns
       /\ args.segmento.t = "str" /\ args.segmento.s # <<>>)
    => /\ ret.kind = "return"
          => \A k \in 1..Len(ret.results) :
                 SameSegment(ret.results[k].segmento, args.segmento.s)
       /\ Surviving = {}
          => (ret.kind = "return" /\ ret.results = <<>> /\ scored = 0)

\* a filtered call that returned a row whose segment differs from X in case
\* only, over a catalog holding a row of another segment
C1_Witness ==
    /\ Searched /\ load_ok /\ ret.kind = "return"
    /\ args.segmento.t = "str" /\ args.segmento.s # <<>>
    /\ \E k \in 1..Len(ret.results) : ret.results[k].segmento # args.segmento.s
    /\ Surviving # 1..Len(products_df.rows)

----------------------------------------------------------------------------
(* C2 *)

\* C2: every row that survives the segment filter has the final score
\* max(descScore, segScore), raised by 10 and capped at 100 when
\* segScore >= 80; it is in the result exactly once iff that score is
\* >= min_score, the result carries that score, and the score is in 0..100.
C2_FinalScore ==
    (Searched /\ ret.kind = "return")
    => /\ Len(ret.results) = Cardinality(Kept)
       /\ \A i \in Kept :
              Cardinality({k \in 1..Len(ret.results) : ret.results[k] = ExpectedResult(i)})
                = Cardinality({j \in Kept : ExpectedResult(j) = ExpectedResult(i)})
       /\ \A k \in 1..Len(ret.results) :
              /\ \E i \in Kept : ret.results[k] = ExpectedResult(i)
              /\ ret.results[k].score >= 0
              /\ ret.results[k].score <= 100 * Scale

\* a call at the default threshold that kept a row only because of the boost
\* (segScore >= 80, score 90 < 100) and dropped another surviving row
C2_Witness ==
    /\ Searched /\ load_ok /\ ret.kind = "return"
    /\ args.min_score = 90 * Scale
    /\ \E i \in Kept : /\ SegScore(i) >= 80 * Scale
                        /\ Expected(i) = 90 * Scale
                        /\ \E k \in 1..Len(ret.results) : ret.results[k] = ExpectedResult(i)
    /\ Surviving \ Kept # {}

----------------------------------------------------------------------------
(* C3 *)

\* the rows of a set of catalog indices, in catalog order
RECURSIVE InOrder(_)
InOrder(I) ==
    IF I = {} THEN <<>>
    ELSE LET m == CHOOSE x \in I : \A y \in I : x <= y
         IN  <<ExpectedResult(m)>> \o InOrder(I \ {m})

\* C3: the list search_products returns is sorted by score descending, and
\* results of equal score keep the relative order of their catalog rows.
C3_Sorted ==
    (Searched /\ ret.kind = "return")
    => /\ \A k \in 1..(Len(ret.results) - 1) :
              ret.results[k].score >= ret.results[k + 1].score
       /\ \A v \in {ret.results[k].score : k \in 1..Len(ret.results)} :
              SelectSeq(ret.results, LAMBDA r : r.score = v)
                = InOrder({i \in Kept : Expected(i) = v})

\* a result whose order differs from the catalog's (a later row scored
\* higher) and that holds two different rows of equal score
C3_Witness ==
    /\ Searched /\ load_ok /\ ret.kind = "return"
    /\ \E i, j \in Kept : i < j /\ Expected(i) < Expected(j)
    /\ \E k \in 1..(Len(ret.results) - 1) :
          /\ ret.results[k].score = ret.results[k + 1].score
          /\ ret.results[k] # ret.results[k + 1]

----------------------------------------------------------------------------
(* C4 *)

\* the per-query result lists of a multi-mode response, concatenated in
\* request order
RECURSIVE Concatenated(_)
Concatenated(procesadas) ==
    IF procesadas = <<>> THEN <<>>
    ELSE Head(procesadas).resultados \o Concatenated(Tail(procesadas))

MultiAnswered ==
    /\ Answered("cotizar") /\ response.status = 200
    /\ "resultados_combinados" \in DOMAIN response.body

\* C4: resultados_combinados holds no two entries of equal descripcion, holds
\* an entry for every descripcion of any per-query list, and each entry is
\* the first occurrence of its descripcion in the concatenated lists.
C4_FirstSeen ==
    MultiAnswered
    => LET all == Concatenated(response.body.consultas_procesadas)
           combined == response.body.resultados_combinados
           first(desc) == CHOOSE n \in 1..Len(all) :
                              /\ all[n].descripcion = desc
                              /\ \A m \in 1..(n - 1) : all[m].descripcion # desc
       IN  /\ \A a, b \in 1..Len(combined) :
                  combined[a].descripcion = combined[b].descripcion => a = b
           /\ \A n \in 1..Len(all) :
                  \E a \in 1..Len(combined) : combined[a].descripcion = all[n].descripcion
           /\ \A a \in 1..Len(combined) :
                  /\ \E n \in 1..Len(all) : all[n].descripcion = combined[a].descripcion
                  /\ combined[a] = all[first(combined[a].descripcion)]

\* a combined entry that a later sub-query returned with a higher score
C4_Witness ==
    /\ MultiAnswered
    /\ LET all == Concatenated(response.body.consultas_procesadas)
           combined == response.body.resultados_combinados
       IN  \E a \in 1..Len(combined), n \in 1..Len(all) :
               /\ all[n].descripcion = combined[a].descripcion
               /\ all[n].score > combined[a].score

----------------------------------------------------------------------------
(* C5 *)

FlatKeys == {"consulta", "resultados", "total_encontrados"}

NestedKeys ==
    {"consultas_procesadas", "resultados_combinados", "total_consultas",
     "total_encontrados_combinados"}

\* C5: with the catalog loaded, a valid request with a 'consulta' field is
\* answered in the flat shape (consulta, resultados, total_encontrados,
\* optional segmento_filtrado) and a valid request with a 'consultas' list,
\* also of length one, in the nested shape; neither shape has a field of the
\* other.
C5_Shapes ==
    (Answered("cotizar") /\ load_ok)
    => /\ ValidSingle(data)
          => /\ response.status = 200
             /\ FlatKeys \subseteq DOMAIN response.body
             /\ DOMAIN response.body \subseteq FlatKeys \cup {"segmento_filtrado"}
             /\ "segmento_filtrado" \in DOMAIN response.body <=> Texto(data.segmento)
       /\ ValidMulti(data)
          => /\ response.status = 200
             /\ DOMAIN response.body = NestedKeys
             /\ Len(response.body.consultas_procesadas) = Len(data.consultas.items)
             /\ \A i \in 1..Len(data.consultas.items) :
                    LET info == response.body.consultas_procesadas[i]
                    IN  /\ FlatKeys \subseteq DOMAIN info
                        /\ DOMAIN info \subseteq FlatKeys \cup {"segmento_filtrado"}

\* a list of one valid query answered in the nested shape with a match
C5_Witness ==
    /\ Answered("cotizar") /\ load_ok /\ ValidMulti(data)
    /\ Len(data.consultas.items) = 1
    /\ response.status = 200
    /\ response.body.total_encontrados_combinados > 0

----------------------------------------------------------------------------
(* C6 *)

\* the position of the first invalid item of a list
FirstInvalid(items) ==
    CHOOSE i \in 1..Len(items) :
        /\ ~ItemOk(items[i])
        /\ \A j \in 1..(i - 1) : ItemOk(items[j])

\* C6: a 'consultas' list with an invalid item is rejected whole with a
\* validation failure (400) that names the 1-based position of the first
\* invalid item, carries no results, and no match is computed for any item
\* before the invalid one; stated here for a catalog that loaded.
C6_BatchRejected ==
    (Answered("cotizar") /\ load_ok /\ ListBody(data)
       /\ \E i \in 1..Len(data.consultas.items) : ~ItemOk(data.consultas.items[i]))
    => /\ response.status = 400
       /\ DOMAIN response.body = {"error"}
       /\ response.body.error.item = FirstInvalid(data.consultas.items)
       /\ searches = 0

----------------------------------------------------------------------------
(* C7 *)

\* the malformed inputs: a JSON value that is not an object, an object with
\* neither field, a bad query text or segment, a 'consultas' that is not a
\* non-empty list, a list with an invalid item
Malformed(d) ==
    /\ d.is_json /\ d.t # "unparseable"
    /\ \/ d.t # "obj"
       \/ "consulta" \notin d.keys /\ "consultas" \notin d.keys
       \/ "consulta" \in d.keys /\ ~(Texto(d.consulta) /\ SegmentoOk(d.segmento))
       \/ /\ "consulta" \notin d.keys /\ "consultas" \in d.keys
          /\ \/ d.consultas.t # "list"
             \/ d.consultas.items = <<>>
             \/ \E i \in 1..Len(d.consultas.items) : ~ItemOk(d.consultas.items[i])

\* C7: every malformed POST /cotizar input is answered with a client-side
\* validation failure (400), never with a 500 and never with results; stated
\* here for a catalog that loaded.
C7_Malformed400 ==
    (Answered("cotizar") /\ load_ok /\ Malformed(data))
    => (response.status = 400 /\ DOMAIN response.body = {"error"})

----------------------------------------------------------------------------
(* C8 *)

\* load_products failed on a file with rows that lacks a required column
SchemaFailed ==
    ~load_ok /\ ~products_df.isNone /\ products_df.rows # <<>> /\ pc # "startup"

\* C8: after ingestion failed for a missing required column, every
\* GET /segmentos and every valid POST /cotizar returns a failure, never a
\* 200 with segments or results.
C8_Degraded ==
    (SchemaFailed /\ pc = "responded")
    => /\ op = "get_segmentos" => response.status # 200
       /\ (op = "cotizar" /\ (ValidSingle(data) \/ ValidMulti(data)))
          => response.status # 200

----------------------------------------------------------------------------
(* C9 *)

\* C9: while products_df is None, search_products raises "Products not
\* loaded" before filtering or scoring, GET /segmentos answers 500, and every
\* valid POST /cotizar (single or list) answers 500 with no results.
C9_Unavailable ==
    (pc = "responded" /\ products_df.isNone)
    => /\ op = "search_products"
          => (ret.kind = "ValueError" /\ ret.results = <<>> /\ scored = 0)
       /\ op = "get_segmentos"
          => (response.status = 500 /\ DOMAIN response.body = {"error"})
       /\ (op = "cotizar" /\ (ValidSingle(data) \/ ValidMulti(data)))
          => (response.status = 500 /\ DOMAIN response.body = {"error"} /\ scored = 0)

\* a valid list request answered 500 while the catalog is unset
C9_Witness ==
    /\ Answered("cotizar") /\ products_df.isNone
    /\ ValidMulti(data) /\ Len(data.consultas.items) > 1
    /\ response.status = 500

----------------------------------------------------------------------------
(* C10 *)

\* C10: every internal failure raised while handling POST /cotizar is
\* answered with the generic internal-error response, a fixed message that
\* holds nothing of the text of the raised error.
C10_NoLeak ==
    (Answered("cotizar") /\ response.status = 500)
    => /\ DOMAIN response.body = {"error"}
       /\ response.body.error.text = GenericError
       /\ response.body.error.detail = ""

====
